---- MODULE Spec2Model ----
(***************************************************************************)
(* Pathagoras core (src/core.py): TriangleData, the input validator and    *)
(* proceed_data.                                                           *)
(*                                                                         *)
(* Numbers.  The program computes in IEEE-754 binary64 (Python float).     *)
(* The model computes in the same kind of format, scaled down: a finite    *)
(* non-negative float is an integer k counting units of 2^-FracBits that   *)
(* has at most Precision significant bits and is below 2^MaxExp            *)
(* (gradual underflow included: every k < 2^Precision is a float).  Every  *)
(* operation rounds its exact result to the nearest float, ties to even,   *)
(* overflows to Inf and propagates NaN, as binary64 does.  The two         *)
(* tolerances of is_right_triangle are scaled with the format: the         *)
(* relative one stays a few roundings wide, the absolute one below it.     *)
(***************************************************************************)
EXTENDS Integers, Sequences, FiniteSets, TLC

\* ------------------------------------------------------------ float format
Precision == 6
FracBits == 6
MaxExp == 14
RelTolBits == 4
AbsTolBits == 6

One == 2 ^ FracBits
Inf == 2 ^ MaxExp
NaN == Inf + 1
None == Inf + 2

IsFinite(x) == x \in 0 .. (Inf - 1)

RECURSIVE BitLen(_)
BitLen(q) == IF q = 0 THEN 0 ELSE 1 + BitLen(q \div 2)

\* The spacing of the floats at the integer q (1 below 2^Precision).
Spacing(q) == IF BitLen(q) > Precision THEN 2 ^ (BitLen(q) - Precision) ELSE 1

\* Round the exact value n/d >= 0 (in units) to the nearest float, ties to
\* even; a result beyond the largest finite float is Inf.
RoundRat(n, d) ==
    LET q == n \div d
        g == Spacing(q)
        lo == (q \div g) * g
        hi == lo + g
        rem2 == 2 * (n - lo * d)
        r == IF rem2 < g * d THEN lo
             ELSE IF rem2 > g * d THEN hi
             ELSE IF (lo \div g) % 2 = 0 THEN lo ELSE hi
    IN  IF r >= Inf THEN Inf ELSE r

FMul(x, y) ==
    IF x = NaN \/ y = NaN THEN NaN
    ELSE IF x = Inf \/ y = Inf THEN (IF x = 0 \/ y = 0 THEN NaN ELSE Inf)
    ELSE RoundRat(x * y, One)

FAdd(x, y) ==
    IF x = NaN \/ y = NaN THEN NaN
    ELSE IF x = Inf \/ y = Inf THEN Inf
    ELSE RoundRat(x + y, 1)

\* abs(x - y); x - y itself where x >= y.
FAbsSub(x, y) ==
    IF x = NaN \/ y = NaN THEN NaN
    ELSE IF x = Inf /\ y = Inf THEN NaN
    ELSE IF x = Inf \/ y = Inf THEN Inf
    ELSE RoundRat(IF x >= y THEN x - y ELSE y - x, 1)

FLt(x, y) == x # NaN /\ y # NaN /\ x < y
FLe(x, y) == x # NaN /\ y # NaN /\ x <= y
FGt(x, y) == FLt(y, x)

RECURSIVE ISqrt(_)
ISqrt(n) ==
    IF n < 2 THEN n
    ELSE LET s == 2 * ISqrt(n \div 4)
         IN  IF (s + 1) * (s + 1) <= n THEN s + 1 ELSE s

\* math.sqrt of a non-negative float: the float nearest the exact root.
FSqrt(x) ==
    IF x = NaN THEN NaN
    ELSE IF x = Inf THEN Inf
    ELSE LET n == x * One
             r == ISqrt(n)
             g == Spacing(r)
             lo == (r \div g) * g
             hi == lo + g
             m == 2 * lo + g
         IN  IF 4 * n < m * m THEN lo
             ELSE IF 4 * n > m * m THEN hi
             ELSE IF (lo \div g) % 2 = 0 THEN lo ELSE hi

\* Python's max(x, y): y if y > x else x.
PyMax(x, y) == IF FGt(y, x) THEN y ELSE x

\* The tolerances 1e-9 (relative) and 1e-12 (absolute) in the model's format.
RelTol == 2 ^ (FracBits - RelTolBits)
AbsTol == 2 ^ (FracBits - AbsTolBits)

\* ------------------------------------------------------------ TriangleData
\* TriangleData(): the record as constructed, every field at its default.
TriangleData == [a |-> None, b |-> None, c |-> None,
                 is_right |-> FALSE, is_valid |-> FALSE, message |-> ""]

\* The outcome of a call: the record after it and the exception it raised
\* (exc = "" when it returned normally).
Return(t) == [t |-> t, exc |-> "", msg |-> ""]
Raise(t, exc, msg) == [t |-> t, exc |-> exc, msg |-> msg]

MsgLegsRequired == "Both legs a and b are required to compute hypotenuse c."
MsgHypRequired == "Hypotenuse c is required to compute a leg."
MsgOneLeg == "Exactly one leg (a or b) must be provided to compute the other."
MsgLegTooLong == "Hypotenuse c must be greater than the known leg."
MsgVerifySides == "All three sides are required to verify a triangle."
MsgImpossible == "Input sorted: largest treated as hypotenuse. Triangle is impossible: a + b <= c ."
MsgValidateSides == "All three sides are required to validate a triangle."
MsgKeys == "Data must contain exactly keys: a, b, c"
MsgTwoValues == "Enter exactly two values to compute the missing one, or all three values to verify."
MsgHypotenuse == "Hypotenuse calculated"
MsgLeg == "Leg calculated"
MsgNotRight == "Input sorted: largest treated as hypotenuse. Triangle is NOT right"
MsgRight == "Input sorted: largest treated as hypotenuse. Triangle is RIGHT"
MsgNumber(key) == "Field " \o key \o ": value must be a number."
MsgFinite(key) == "Field " \o key \o ": value must be finite (not NaN or infinity)."
MsgPositive(key) == "Field " \o key \o ": value must be greater than zero."
MsgDomain == "math domain error"
MsgOperand == "unsupported operand type(s)"

\* A variant that leaves the square root out: c = a*a + b*b.
compute_hypotenuse_squared(t) ==
    IF t.a = None \/ t.b = None THEN Raise(t, "ValueError", MsgLegsRequired)
    ELSE Return([t EXCEPT !.c = FAdd(FMul(t.a, t.a), FMul(t.b, t.b)),
                          !.is_valid = TRUE,
                          !.is_right = TRUE])

compute_hypotenuse(t) ==
    IF t.a = None \/ t.b = None THEN Raise(t, "ValueError", MsgLegsRequired)
    ELSE Return([t EXCEPT !.c = FSqrt(FAdd(FMul(t.a, t.a), FMul(t.b, t.b))),
                          !.is_valid = TRUE,
                          !.is_right = TRUE])

\* math.sqrt(x * x - y * y): a negative argument is a ValueError of math.sqrt.
SqrtOfDifference(t, x, y) ==
    IF FLt(FMul(x, x), FMul(y, y)) THEN Raise(t, "ValueError", MsgDomain)
    ELSE Return(FSqrt(FAbsSub(FMul(x, x), FMul(y, y))))

compute_leg(t) ==
    IF t.c = None THEN Raise(t, "ValueError", MsgHypRequired)
    ELSE IF (t.a = None) = (t.b = None) THEN Raise(t, "ValueError", MsgOneLeg)
    ELSE LET known == IF t.a # None THEN t.a ELSE t.b
             root == SqrtOfDifference(t, t.c, known)
         IN  IF FGt(known, t.c) THEN Raise(t, "ValueError", MsgLegTooLong)
             ELSE IF root.exc # "" THEN root
             ELSE IF t.a # None
                  THEN Return([t EXCEPT !.b = root.t, !.is_valid = TRUE, !.is_right = TRUE])
                  ELSE Return([t EXCEPT !.a = root.t, !.is_valid = TRUE, !.is_right = TRUE])

\* A variant without the absolute floor of the tolerance.
is_right_triangle_relative(t) ==
    IF t.a = None \/ t.b = None \/ t.c = None
    THEN Raise(t, "ValueError", MsgVerifySides)
    ELSE LET lhs == FAdd(FMul(t.a, t.a), FMul(t.b, t.b))
             rhs == FMul(t.c, t.c)
         IN  Return([t EXCEPT !.is_right =
                        FLe(FAbsSub(lhs, rhs), FMul(RelTol, PyMax(lhs, rhs)))])

is_right_triangle(t) ==
    IF t.a = None \/ t.b = None \/ t.c = None
    THEN Raise(t, "ValueError", MsgVerifySides)
    ELSE LET lhs == FAdd(FMul(t.a, t.a), FMul(t.b, t.b))
             rhs == FMul(t.c, t.c)
         IN  Return([t EXCEPT !.is_right =
                        FLe(FAbsSub(lhs, rhs),
                            PyMax(AbsTol, FMul(RelTol, PyMax(lhs, rhs))))])

\* A variant that clears is_valid when the inequality fails.
is_triangle_possible_resetting(t) ==
    IF t.a = None \/ t.b = None \/ t.c = None THEN Raise(t, "TypeError", MsgOperand)
    ELSE IF FLe(FAdd(t.a, t.b), t.c)
         THEN Raise([t EXCEPT !.is_valid = FALSE], "ValueError", MsgImpossible)
    ELSE Return([t EXCEPT !.is_valid = TRUE])

\* A variant that tests a + b < c: the degenerate triangle passes.
is_triangle_possible_strict(t) ==
    IF t.a = None \/ t.b = None \/ t.c = None THEN Raise(t, "TypeError", MsgOperand)
    ELSE IF FLt(FAdd(t.a, t.b), t.c) THEN Raise(t, "ValueError", MsgImpossible)
    ELSE Return([t EXCEPT !.is_valid = TRUE])

\* a + b <= c on an absent side is a TypeError of the operators.
is_triangle_possible(t) ==
    IF t.a = None \/ t.b = None \/ t.c = None THEN Raise(t, "TypeError", MsgOperand)
    ELSE IF FLe(FAdd(t.a, t.b), t.c) THEN Raise(t, "ValueError", MsgImpossible)
    ELSE Return([t EXCEPT !.is_valid = TRUE])

\* list.sort's binary insertion of w into the sorted run <<u, v>>.
BinaryInsert(u, v, w) ==
    IF FLt(w, v) THEN (IF FLt(w, u) THEN <<w, u, v>> ELSE <<u, w, v>>)
    ELSE <<u, v, w>>

\* sorted([x, y, z]): the initial run (reversed when strictly descending),
\* then binary insertion of what is left; every comparison is a float <.
Sorted3(x, y, z) ==
    IF FLt(y, x)
    THEN (IF FLt(z, y) THEN <<z, y, x>> ELSE BinaryInsert(y, x, z))
    ELSE (IF FLt(z, y) THEN BinaryInsert(x, y, z) ELSE <<x, y, z>>)

\* A variant that sorts in descending order.
normalise_reversed(t) ==
    IF t.a = None \/ t.b = None \/ t.c = None
    THEN Raise(t, "ValueError", MsgValidateSides)
    ELSE LET s == Sorted3(t.a, t.b, t.c)
         IN  Return([t EXCEPT !.a = s[3], !.b = s[2], !.c = s[1]])

normalise(t) ==
    IF t.a = None \/ t.b = None \/ t.c = None
    THEN Raise(t, "ValueError", MsgValidateSides)
    ELSE LET s == Sorted3(t.a, t.b, t.c)
         IN  Return([t EXCEPT !.a = s[1], !.b = s[2], !.c = s[3]])

\* ------------------------------------------------------------ input validator
\* A raw value of the mapping: [kind, val].
\*   "None"    None                       "blank"  the empty text
\*   "space"   whitespace-only text       "word"   text float() rejects
\*   "nan" "inf" "neginf"   the texts float() reads as nan, inf, -inf
\*   "num"     a decimal numeral; val is the number it denotes, in units
\*   "float"   a float object (what proceed_data writes back); val is the float
\*   "comma"   a numeral written with a decimal comma; val is the number meant
Raw(kind, val) == [kind |-> kind, val |-> val]
RawNone == Raw("None", 0)

RequiredKeys == {"a", "b", "c"}
KeySet(data) == {data[i].key : i \in 1 .. Len(data)}

\* A variant that only requires a, b and c to be among the keys.
validate_required_keys_subset(data) ==
    IF ~(RequiredKeys \subseteq KeySet(data)) THEN Raise(data, "ValueError", MsgKeys)
    ELSE Return(data)

validate_required_keys(data) ==
    IF KeySet(data) # RequiredKeys THEN Raise(data, "ValueError", MsgKeys)
    ELSE Return(data)

\* float(value): the sign and the magnitude of the number read, or a ValueError.
\* A numeral is read as the float nearest to the number it denotes.
ToFloat(value) ==
    CASE value.kind \in {"word", "comma"} ->
              Raise(value, "ValueError", "could not convert string to float")
      [] value.kind = "nan" -> Return([neg |-> FALSE, mag |-> NaN])
      [] value.kind = "inf" -> Return([neg |-> FALSE, mag |-> Inf])
      [] value.kind = "neginf" -> Return([neg |-> TRUE, mag |-> Inf])
      [] value.kind = "float" -> Return([neg |-> FALSE, mag |-> value.val])
      [] OTHER -> Return([neg |-> value.val < 0,
                          mag |-> RoundRat(IF value.val < 0 THEN 0 - value.val
                                           ELSE value.val, 1)])

\* A variant that tests the sign before finiteness.
validate_value_sign_first(key, value) ==
    IF value.kind \in {"None", "blank", "space"} THEN Return(None)
    ELSE LET number == ToFloat(value)
         IN  IF number.exc # "" THEN Raise(None, "ValueError", MsgNumber(key))
             ELSE IF number.t.mag # NaN /\ (number.t.neg \/ number.t.mag = 0)
                  THEN Raise(None, "ValueError", MsgPositive(key))
             ELSE IF ~IsFinite(number.t.mag) THEN Raise(None, "ValueError", MsgFinite(key))
             ELSE Return(number.t.mag)

validate_value(key, value) ==
    IF value.kind \in {"None", "blank", "space"} THEN Return(None)
    ELSE LET number == ToFloat(value)
         IN  IF number.exc # "" THEN Raise(None, "ValueError", MsgNumber(key))
             ELSE IF ~IsFinite(number.t.mag) THEN Raise(None, "ValueError", MsgFinite(key))
             ELSE IF number.t.neg \/ number.t.mag = 0
                  THEN Raise(None, "ValueError", MsgPositive(key))
             ELSE Return(number.t.mag)

\* What data[key] holds once the validated value is stored in it.
Stored(v) == IF v = None THEN RawNone ELSE Raw("float", v)

\* ------------------------------------------------------------ proceed_data
\* The state of a proceed_data call: the caller's mapping, the record, the
\* TriangleData methods called so far, and the exception in flight.
Frame(data, t, calls, exc, msg) ==
    [data |-> data, t |-> t, calls |-> calls, exc |-> exc, msg |-> msg]

\* Evaluate x once and hand its value to F (the statements of the program run
\* in order, each on the state the one before left).
Then(x, F(_)) == CHOOSE y \in {F(v) : v \in {x}} : TRUE

\* One turn of the loop for key, value in data.items(), at the i-th item:
\* data[key] = validate_value(key, value); setattr(triangle, key, data[key]).
StoreItem(f, i, v) ==
    IF v.exc # "" THEN [f EXCEPT !.exc = v.exc, !.msg = v.msg]
    ELSE [f EXCEPT !.data[i].value = Stored(v.t), !.t[f.data[i].key] = v.t]

ParseItem(f, i) ==
    IF f.exc # "" \/ i > Len(f.data) THEN f
    ELSE Then(validate_value(f.data[i].key, f.data[i].value),
              LAMBDA v : StoreItem(f, i, v))

\* The whole loop: validate_required_keys has left exactly three items.
ParseItems(data, t) ==
    Then(ParseItem(Frame(data, t, <<>>, "", ""), 1),
         LAMBDA f1 : Then(ParseItem(f1, 2), LAMBDA f2 : ParseItem(f2, 3)))

\* The outcome r of a TriangleData method, called inside the try block.
Called(f, name, r) == Frame(f.data, r.t, Append(f.calls, name), r.exc, r.msg)

\* Call a TriangleData method inside the try block, unless one has raised.
Call(f, name, Op(_)) ==
    IF f.exc # "" THEN f
    ELSE Then(Op(f.t), LAMBDA r : Called(f, name, r))

\* A variant that forgets to store the message.
SetMessageForgotten(f, message) == f

SetMessage(f, message) ==
    IF f.exc # "" THEN f ELSE [f EXCEPT !.t.message = message]

missing_keys(data) ==
    SelectSeq([i \in 1 .. Len(data) |->
                  IF data[i].value.kind = "None" THEN data[i].key ELSE ""],
              LAMBDA k : k # "")

\* validate_required_keys(data), then the loop over data.items().
Validate(data) ==
    IF validate_required_keys(data).exc # ""
    THEN Frame(data, TriangleData, <<>>, "ValueError", MsgKeys)
    ELSE ParseItems(data, TriangleData)

VerifyMessage(f) ==
    SetMessage(f, IF ~f.t.is_right THEN MsgNotRight ELSE MsgRight)

\* A variant that verifies the sides in the order they were entered.
VerifyUnsorted(f) ==
    Then(Call(f, "normalise", Return),
         LAMBDA n : Then(Call(n, "is_triangle_possible", is_triangle_possible),
         LAMBDA p : Then(Call(p, "is_right_triangle", is_right_triangle),
                         VerifyMessage)))

\* A variant that tests the right angle before the triangle inequality.
VerifyRightFirst(f) ==
    Then(Call(f, "normalise", normalise),
         LAMBDA n : Then(Call(n, "is_right_triangle", is_right_triangle),
         LAMBDA r : Then(Call(r, "is_triangle_possible", is_triangle_possible),
                         VerifyMessage)))

Verify(f) ==
    Then(Call(f, "normalise", normalise),
         LAMBDA n : Then(Call(n, "is_triangle_possible", is_triangle_possible),
         LAMBDA p : Then(Call(p, "is_right_triangle", is_right_triangle),
                         VerifyMessage)))

\* A variant with the two branches of the dispatch exchanged.
SolveExchanged(f, missing) ==
    IF missing # <<"c">>
    THEN Then(Call(f, "compute_hypotenuse", compute_hypotenuse),
              LAMBDA h : SetMessage(h, MsgHypotenuse))
    ELSE Then(Call(f, "compute_leg", compute_leg), LAMBDA l : SetMessage(l, MsgLeg))

Solve(f, missing) ==
    IF missing = <<"c">>
    THEN Then(Call(f, "compute_hypotenuse", compute_hypotenuse),
              LAMBDA h : SetMessage(h, MsgHypotenuse))
    ELSE Then(Call(f, "compute_leg", compute_leg), LAMBDA l : SetMessage(l, MsgLeg))

Mode(f, missing) ==
    IF Len(missing) > 1 THEN [f EXCEPT !.exc = "ValueError", !.msg = MsgTwoValues]
    ELSE IF Len(missing) = 1 THEN Solve(f, missing)
    ELSE Verify(f)

Dispatch(f) ==
    IF f.exc # "" THEN f
    ELSE Then(missing_keys(f.data), LAMBDA missing : Mode(f, missing))

\* A variant that counts the blank fields before it parses any value.
TryBlockCountFirst(data) ==
    IF /\ validate_required_keys(data).exc = ""
       /\ Cardinality({i \in 1 .. Len(data) :
                          data[i].value.kind \in {"None", "blank", "space"}}) > 1
    THEN Frame(data, TriangleData, <<>>, "ValueError", MsgTwoValues)
    ELSE Then(Validate(data), Dispatch)

\* The try block.
TryBlock(data) == Then(Validate(data), Dispatch)

\* A variant that also clears the sides.
ExceptValueErrorRollback(f) ==
    [f EXCEPT !.t = [TriangleData EXCEPT !.message = f.msg]]

\* except ValueError as e: the record, with the message and the flags reset.
ExceptValueError(f) ==
    [f EXCEPT !.t.message = f.msg, !.t.is_valid = FALSE, !.t.is_right = FALSE]

\* A variant without the except clause: the ValueError leaves proceed_data.
HandleNothing(f) == f

Handle(f) ==
    IF f.exc = "ValueError" THEN [ExceptValueError(f) EXCEPT !.exc = ""] ELSE f

\* proceed_data(data): the frame at return.  exc is "" when the record f.t
\* is returned, and the exception that leaves the function otherwise; msg
\* keeps the text of a ValueError that was caught.
proceed_data(data) == Then(TryBlock(data), Handle)

\* repr(x) of a float, as the caller types a result back into a field: the
\* shortest numeral that reads back as x, or the text inf / nan.
Repr(x) ==
    IF x = NaN THEN Raw("nan", 0)
    ELSE IF x = Inf THEN Raw("inf", 0)
    ELSE Raw("num", x)

\* ------------------------------------------------------------ inputs
\* Numerals a caller may type, in units: 1/64, 1/8, 1, 2, 2 + one unit (no
\* float), 3, 4, 5, 8, 16, 32, a number beyond the largest float, 0 and -3.
NumTexts == {One \div 64, One \div 8, One, 2 * One, 2 * One + 1, 3 * One,
             4 * One, 5 * One, 8 * One, 16 * One, 32 * One, 2 * Inf, 0, 0 - 3 * One}
TextKinds == {"None", "blank", "space", "word", "nan", "inf", "neginf"}
RawVals == {Raw(k, 0) : k \in TextKinds} \cup {Raw("num", v) : v \in NumTexts}
RawSome == {Raw(k, 0) : k \in {"None", "blank", "word"}}
             \cup {Raw("num", v) : v \in {0, 3 * One, 4 * One, 5 * One}}
RawFew == {Raw("blank", 0), Raw("word", 0), Raw("num", 3 * One)}

Item(k, v) == [key |-> k, value |-> v]
Keys == {"a", "b", "c", "d"}
\* The key orders of a mapping: the sequences of distinct keys.
KeyOrders ==
    UNION {{ks \in [1 .. n -> Keys] : \A i, j \in 1 .. n : i # j => ks[i] # ks[j]}
           : n \in 0 .. Cardinality(Keys)}
Mappings(ks, vals) == {[i \in 1 .. Len(ks) |-> Item(ks[i], vs[i])] : vs \in [1 .. Len(ks) -> vals]}

\* The mappings proceed_data is called with: every value in the order a, b, c;
\* fewer values in the other orders and with other key sets.
Inputs ==
    Mappings(<<"a", "b", "c">>, RawVals)
      \cup UNION {Mappings(ks, RawSome) : ks \in {k \in KeyOrders : {k[i] : i \in 1 .. Len(k)} = RequiredKeys}}
      \cup UNION {Mappings(ks, RawFew) : ks \in {k \in KeyOrders : {k[i] : i \in 1 .. Len(k)} # RequiredKeys}}

\* Floats a TriangleData is constructed with: 1/64, 1/8, 1, 2, 3, 4, 5, 8, 16, 32.
SideVals == {One \div 64, One \div 8, One, 2 * One, 3 * One, 4 * One, 5 * One,
             8 * One, 16 * One, 32 * One}
Records == [a : SideVals \cup {None}, b : SideVals \cup {None}, c : SideVals \cup {None},
            is_right : BOOLEAN, is_valid : BOOLEAN, message : {""}]

\* ------------------------------------------------------------ state
VARIABLES
    pc,        \* "ready": proceed_data is about to be called on data; "done": it
               \* returned; "unit": a TriangleData method is called directly
    data,      \* the caller's mapping (proceed_data writes into it)
    input,     \* the mapping as it was when the call was made
    result,    \* the record proceed_data returned
    calls,     \* the TriangleData methods the call ran, in order
    caught,    \* the text of the ValueError the call caught, "" if none
    escaped,   \* the exception that left proceed_data, "" if none
    origin,    \* "fresh": a caller's input; "roundtrip": a computed result fed back
    triangle,  \* a TriangleData whose methods are called directly
    before,    \* that record before the last method call
    op,        \* the last method called on it, "new" right after construction
    raised,    \* the exception and text that method raised, <<"", "">> if none
    steps,     \* the number of methods called on it so far
    checked,   \* what a validator was called on directly, <<>> before the call
    verdict,   \* what that validator returned or raised
    frames,    \* concurrent callers: each caller's proceed_data call in progress
    heap,      \* the TriangleData objects those calls created
    fields,    \* MainWindow: the texts of a_edit, b_edit and c_edit
    button,    \* MainWindow: action_button (enabled, text)
    status,    \* MainWindow: the text of status_label
    output,    \* MainWindow: output_container (visible), its label and its text
    canvas,    \* MainWindow: what the canvas shows
    showing,   \* MainWindow: _showing_result
    last       \* the most recent click: what it read and what core returned

vars == <<pc, data, input, result, calls, caught, escaped, origin,
          triangle, before, op, raised, steps, checked, verdict,
          frames, heap, fields, button, status, output, canvas, showing, last>>
callVars == <<pc, data, input, result, calls, caught, escaped, origin>>
unitVars == <<triangle, before, op, raised, steps>>
validatorVars == <<checked, verdict>>
NoValidator == checked = <<>> /\ verdict = Return(None)
threadVars == <<frames, heap>>
NoCallers == frames = <<>> /\ heap = <<>>
windowVars == <<fields, button, status, output, canvas, showing, last>>
NoWindow ==
    /\ fields = <<>> /\ button = <<>> /\ status = "" /\ output = <<>>
    /\ canvas = <<>> /\ showing = FALSE /\ last = <<>>

\* ---- a caller either calls proceed_data on a mapping ...
InitCall ==
    /\ pc = "ready"
    /\ data \in Inputs
    /\ input = data
    /\ result = TriangleData
    /\ calls = <<>>
    /\ caught = ""
    /\ escaped = ""
    /\ origin = "fresh"
    /\ triangle = TriangleData
    /\ before = TriangleData
    /\ op = "new"
    /\ raised = <<"", "">>
    /\ steps = 0
    /\ NoValidator
    /\ NoCallers
    /\ NoWindow

\* ---- ... or constructs a TriangleData and calls one of its methods
InitUnit ==
    /\ pc = "unit"
    /\ triangle \in Records
    /\ before = triangle
    /\ op = "new"
    /\ raised = <<"", "">>
    /\ steps = 0
    /\ NoValidator
    /\ NoCallers
    /\ NoWindow
    /\ data = <<>>
    /\ input = <<>>
    /\ result = TriangleData
    /\ calls = <<>>
    /\ caught = ""
    /\ escaped = ""
    /\ origin = "fresh"

Init == InitCall \/ InitUnit

\* ---- ... or constructs one with both flags false and goes on calling methods
MaxOps == 3
InitSeq ==
    /\ pc = "seq"
    /\ triangle \in {t \in Records : ~t.is_right /\ ~t.is_valid}
    /\ before = triangle
    /\ op = "new"
    /\ raised = <<"", "">>
    /\ steps = 0
    /\ NoValidator
    /\ NoCallers
    /\ NoWindow
    /\ data = <<>>
    /\ input = <<>>
    /\ result = TriangleData
    /\ calls = <<>>
    /\ caught = ""
    /\ escaped = ""
    /\ origin = "fresh"

ProceedData ==
    /\ pc = "ready"
    /\ \E f \in {proceed_data(data)} :
           /\ data' = f.data
           /\ result' = IF f.exc = "" THEN f.t ELSE result
           /\ calls' = f.calls
           /\ caught' = IF f.exc = "" THEN f.msg ELSE ""
           /\ escaped' = f.exc
    /\ pc' = "done"
    /\ UNCHANGED <<input, origin, unitVars, validatorVars, threadVars, windowVars>>

\* The caller feeds a computed hypotenuse back, with the two legs, to verify.
Resubmit ==
    /\ pc = "done"
    /\ origin = "fresh"
    /\ escaped = ""
    /\ result.message = MsgHypotenuse
    /\ data' = <<Item("a", Repr(result.a)), Item("b", Repr(result.b)),
                 Item("c", Repr(result.c))>>
    /\ input' = data'
    /\ origin' = "roundtrip"
    /\ pc' = "ready"
    /\ UNCHANGED <<result, calls, caught, escaped, unitVars, validatorVars,
                   threadVars, windowVars>>

\* A method is called on the record as constructed, or on the record the
\* calls before it left.
Callable ==
    \/ pc = "unit" /\ op = "new"
    \/ pc = "seq" /\ steps < MaxOps

Method(name, r) ==
    /\ triangle' = r.t
    /\ raised' = <<r.exc, r.msg>>
    /\ before' = triangle
    /\ op' = name
    /\ steps' = steps + 1
    /\ UNCHANGED <<callVars, validatorVars, threadVars, windowVars>>

ComputeHypotenuse ==
    /\ Callable
    /\ \E r \in {compute_hypotenuse(triangle)} : Method("compute_hypotenuse", r)

ComputeLeg ==
    /\ Callable
    /\ \E r \in {compute_leg(triangle)} : Method("compute_leg", r)

IsRightTriangle ==
    /\ Callable
    /\ \E r \in {is_right_triangle(triangle)} : Method("is_right_triangle", r)

IsTrianglePossible ==
    /\ Callable
    /\ \E r \in {is_triangle_possible(triangle)} : Method("is_triangle_possible", r)

Normalise ==
    /\ Callable
    /\ \E r \in {normalise(triangle)} : Method("normalise", r)

\* A validator, called directly on the mapping or on one of its items.
Validator(name, arg, r) ==
    /\ checked' = arg
    /\ verdict' = r
    /\ op' = name
    /\ pc' = "validated"
    /\ UNCHANGED <<data, input, result, calls, caught, escaped, origin,
                   triangle, before, raised, steps, threadVars, windowVars>>

\* validate_required_keys returns nothing: None, or the error it raised.
ValidateRequiredKeys ==
    /\ pc = "ready" /\ origin = "fresh"
    /\ \E r \in {validate_required_keys(data)} :
           Validator("validate_required_keys", data, [r EXCEPT !.t = None])

ValidateValue ==
    /\ pc = "ready" /\ origin = "fresh"
    /\ \E i \in 1 .. Len(data) :
           \E r \in {validate_value(data[i].key, data[i].value)} :
               Validator("validate_value", data[i], r)

Next ==
    \/ ProceedData
    \/ Resubmit
    \/ ComputeHypotenuse
    \/ ComputeLeg
    \/ IsRightTriangle
    \/ IsTrianglePossible
    \/ Normalise
    \/ ValidateRequiredKeys
    \/ ValidateValue

Spec == Init /\ [][Next]_vars

\* Any sequence of methods on one record.
NextSeq ==
    \/ ComputeHypotenuse
    \/ ComputeLeg
    \/ IsRightTriangle
    \/ IsTrianglePossible
    \/ Normalise

SpecSeq == InitSeq /\ [][NextSeq]_vars

\* ------------------------------------------------------------ several callers
\* Callers that run proceed_data at the same time, each on a mapping of its
\* own; the steps of their calls interleave.
Callers == {"p", "q"}

\* The mappings they pass: every mode, every failure.
CallInputs ==
    Mappings(<<"a", "b", "c">>, {Raw("blank", 0), Raw("num", 3 * One), Raw("num", 5 * One)})
      \cup {<<Item("a", Raw("num", 3 * One)), Item("b", Raw("num", 4 * One)),
              Item("c", Raw("num", 5 * One))>>,
            <<Item("c", Raw("num", 3 * One)), Item("a", Raw("num", 4 * One)),
              Item("b", Raw("num", 5 * One))>>,
            <<Item("a", Raw("num", 3 * One)), Item("b", Raw("num", 3 * One)),
              Item("c", Raw("num", 8 * One))>>,
            <<Item("a", Raw("num", 3 * One)), Item("b", Raw("word", 0)),
              Item("c", Raw("num", 5 * One))>>,
            <<Item("a", Raw("num", 3 * One)), Item("b", Raw("num", 4 * One))>>}

\* A call that has not started: its mapping, no record yet.
Entry(m) ==
    [pc |-> "new", ref |-> 0, data |-> m, input |-> m,
     calls |-> <<>>, exc |-> "", msg |-> ""]

InitCallers ==
    /\ pc = "callers"
    /\ frames \in [Callers -> {Entry(m) : m \in CallInputs}]
    /\ heap = <<>>
    /\ data = <<>>
    /\ input = <<>>
    /\ result = TriangleData
    /\ calls = <<>>
    /\ caught = ""
    /\ escaped = ""
    /\ origin = "fresh"
    /\ triangle = TriangleData
    /\ before = TriangleData
    /\ op = "new"
    /\ raised = <<"", "">>
    /\ steps = 0
    /\ NoValidator
    /\ NoWindow

\* A variant in which TriangleData() hands out one shared object.
NewObjectShared(h) == 1

\* TriangleData() makes a new object: a new place on the heap.
NewObject(h) == Len(h) + 1

\* The locals of caller c's call, as a frame of proceed_data.
Local(c) ==
    Frame(frames[c].data, heap[frames[c].ref], frames[c].calls,
          frames[c].exc, frames[c].msg)

\* Caller c's call goes on at next with the frame f.
Continue(c, f, next) ==
    /\ frames' = [frames EXCEPT ![c] = [pc |-> next, ref |-> frames[c].ref,
                                        data |-> f.data, input |-> frames[c].input,
                                        calls |-> f.calls, exc |-> f.exc, msg |-> f.msg]]
    /\ heap' = [heap EXCEPT ![frames[c].ref] = f.t]
    /\ UNCHANGED <<callVars, unitVars, validatorVars, windowVars>>

\* triangle = TriangleData()
Construct(c) ==
    /\ frames[c].pc = "new"
    /\ \E ref \in {NewObject(heap)} :
           /\ heap' = Append(heap, TriangleData)
           /\ frames' = [frames EXCEPT ![c].ref = ref, ![c].pc = "keys"]
    /\ UNCHANGED <<callVars, unitVars, validatorVars, windowVars>>

\* validate_required_keys(data)
CheckKeys(c) ==
    /\ frames[c].pc = "keys"
    /\ \E r \in {validate_required_keys(frames[c].data)} :
           IF r.exc # ""
           THEN Continue(c, [Local(c) EXCEPT !.exc = r.exc, !.msg = r.msg], "except")
           ELSE Continue(c, Local(c), "item1")

\* One turn of the loop over data.items().
ParseStep(c, i, here, next) ==
    /\ frames[c].pc = here
    /\ \E f \in {ParseItem(Local(c), i)} :
           Continue(c, f, IF f.exc # "" THEN "except" ELSE next)

ParseTurn(c) ==
    \/ ParseStep(c, 1, "item1", "item2")
    \/ ParseStep(c, 2, "item2", "item3")
    \/ ParseStep(c, 3, "item3", "mode")

\* The mode found and its methods run; then return triangle.
RunMode(c) ==
    /\ frames[c].pc = "mode"
    /\ \E f \in {Dispatch(Local(c))} :
           Continue(c, f, IF f.exc = "ValueError" THEN "except" ELSE "done")

\* except ValueError as e: ...; return triangle.
Catch(c) ==
    /\ frames[c].pc = "except"
    /\ \E f \in {Handle(Local(c))} : Continue(c, f, "done")

ConstructRecord == pc = "callers" /\ \E c \in Callers : Construct(c)
ValidateKeys == pc = "callers" /\ \E c \in Callers : CheckKeys(c)
ParseField == pc = "callers" /\ \E c \in Callers : ParseTurn(c)
RunOperation == pc = "callers" /\ \E c \in Callers : RunMode(c)
CatchError == pc = "callers" /\ \E c \in Callers : Catch(c)

NextCallers ==
    \/ ConstructRecord
    \/ ValidateKeys
    \/ ParseField
    \/ RunOperation
    \/ CatchError

SpecCallers == InitCallers /\ [][NextCallers]_vars

\* ------------------------------------------------------------ MainWindow
\* The window of src/ui_qt.py as a record w: the texts of the three input
\* fields, the action button, the status label, the computed-output row, the
\* canvas and the flag _showing_result.
Dash == "--"    \* the dash the button and the output label show (U+2014)
GBits == 3      \* the significant digits the format g keeps, in bits

Label(text, wrapped) == [text |-> text, wrapped |-> wrapped]
MsgEnter == "Enter two values to compute or three to verify"
MsgLeave == "Leave the field empty for the value you want to compute (a, b, or c)."
MsgClick == "Click 'Verify' to check whether the triangle is right-angled. "
              \o "Input will be sorted: largest will be treated as hypotenuse."

MainWindow ==
    [fields |-> [k \in RequiredKeys |-> Raw("blank", 0)],
     button |-> [enabled |-> FALSE, text |-> Dash],
     status |-> Label(MsgEnter, FALSE),
     output |-> [visible |-> FALSE, label |-> Dash, text |-> Raw("blank", 0)],
     canvas |-> [has_result |-> FALSE, a |-> None, b |-> None, c |-> None,
                 is_right |-> FALSE],
     showing |-> FALSE]

\* txt.strip(); bool(v) of a text; txt.strip().replace(",", ".")
strip(txt) == IF txt.kind = "space" THEN Raw("blank", 0) ELSE txt
Truthy(txt) == txt.kind # "blank"
normalized_text(txt) ==
    IF strip(txt).kind = "comma" THEN Raw("num", strip(txt).val) ELSE strip(txt)

filled_count(w) == Cardinality({k \in RequiredKeys : Truthy(strip(w.fields[k]))})

\* The text with each of its sentences on a line of its own.
sentence_wrap(text) == Label(text, TRUE)

\* format(value, "g"): the value to GBits significant bits, or inf or nan.
FormatG(value) ==
    IF value = NaN THEN Raw("nan", 0)
    ELSE IF value = Inf THEN Raw("inf", 0)
    ELSE LET g == IF BitLen(value) > GBits THEN 2 ^ (BitLen(value) - GBits) ELSE 1
             lo == (value \div g) * g
             rem2 == 2 * (value - lo)
         IN  Raw("num", IF rem2 < g THEN lo
                        ELSE IF rem2 > g THEN lo + g
                        ELSE IF (lo \div g) % 2 = 0 THEN lo ELSE lo + g)

\* A variant that leaves the button as it is.
clear_inputs_keep_button(w) ==
    [w EXCEPT !.fields = [k \in RequiredKeys |-> Raw("blank", 0)]]

\* The fields cleared with their signals blocked, the button reset.
clear_inputs(w) ==
    [w EXCEPT !.fields = [k \in RequiredKeys |-> Raw("blank", 0)],
              !.button = [enabled |-> FALSE, text |-> Dash]]

\* A variant that leaves the output row as it is.
hide_outputs_forgotten(w) == w

hide_outputs(w) ==
    [w EXCEPT !.output = [visible |-> FALSE, label |-> Dash, text |-> Raw("blank", 0)]]

show_computed_output(w, key, value) ==
    [w EXCEPT !.output = [visible |-> TRUE, label |-> key \o ":", text |-> FormatG(value)]]

show_placeholder(w) ==
    [w EXCEPT !.canvas.has_result = FALSE, !.canvas.is_right = FALSE]

show_result(w, t) ==
    [w EXCEPT !.canvas = [has_result |-> TRUE, a |-> t.a, b |-> t.b, c |-> t.c,
                          is_right |-> t.is_right]]

\* The button and the guidance for the number of filled fields.
Guide(w, filled) ==
    IF filled = 2
    THEN [w EXCEPT !.button = [enabled |-> TRUE, text |-> "Calculate"],
                   !.status = sentence_wrap(MsgLeave)]
    ELSE IF filled = 3
    THEN [w EXCEPT !.button = [enabled |-> TRUE, text |-> "Verify"],
                   !.status = sentence_wrap(MsgClick)]
    ELSE [w EXCEPT !.button = [enabled |-> FALSE, text |-> Dash],
                   !.status = sentence_wrap(MsgEnter)]

on_input_changed(w) ==
    LET any_text == \E k \in RequiredKeys : Truthy(strip(w.fields[k]))
    IN  IF w.showing /\ ~any_text THEN w
        ELSE Guide([w EXCEPT !.showing = FALSE], filled_count(w))

\* core.proceed_data({"a": a_txt, "b": b_txt, "c": c_txt})
CoreCall(w) ==
    proceed_data(<<Item("a", normalized_text(strip(w.fields.a))),
                   Item("b", normalized_text(strip(w.fields.b))),
                   Item("c", normalized_text(strip(w.fields.c)))>>)

\* The computed output after a click that read raw, core having returned.
ShowOutput(w, raw, returned) ==
    IF Cardinality({k \in RequiredKeys : Truthy(raw[k])}) = 2 /\ returned.is_valid
    THEN IF ~Truthy(raw.a) /\ returned.a # None THEN show_computed_output(w, "a", returned.a)
         ELSE IF ~Truthy(raw.b) /\ returned.b # None THEN show_computed_output(w, "b", returned.b)
         ELSE IF ~Truthy(raw.c) /\ returned.c # None THEN show_computed_output(w, "c", returned.c)
         ELSE hide_outputs(w)
    ELSE hide_outputs(w)

ShowCanvas(w, returned) ==
    IF returned.is_valid /\ returned.a # None /\ returned.b # None /\ returned.c # None
    THEN show_result(w, returned)
    ELSE show_placeholder(w)

\* on_action_clicked from the point where core has returned.
ShowResult(w, returned) ==
    clear_inputs(
        ShowOutput(
            ShowCanvas([w EXCEPT !.showing = TRUE,
                                 !.status = sentence_wrap(returned.message)],
                       returned),
            [k \in RequiredKeys |-> strip(w.fields[k])],
            returned))

\* An exception leaving proceed_data would leave the handler where it was.
on_action_clicked(w) ==
    Then(CoreCall(w), LAMBDA call : IF call.exc # "" THEN w ELSE ShowResult(w, call.t))

\* Texts a user types into a field: nothing, a space, 3, 4 and 5,0 with a
\* decimal comma.
UITexts ==
    {Raw("blank", 0), Raw("space", 0), Raw("num", 3 * One), Raw("num", 4 * One),
     Raw("comma", 5 * One)}

\* The fields of the window that hold non-blank text.
NonBlank(f) == {k \in {"a", "b", "c"} : f[k].kind \notin {"blank", "space"}}

Window ==
    [fields |-> fields, button |-> button, status |-> status, output |-> output,
     canvas |-> canvas, showing |-> showing]

InitWindow ==
    /\ pc = "window"
    /\ fields = MainWindow.fields
    /\ button = MainWindow.button
    /\ status = MainWindow.status
    /\ output = MainWindow.output
    /\ canvas = MainWindow.canvas
    /\ showing = MainWindow.showing
    /\ last = <<>>
    /\ data = <<>>
    /\ input = <<>>
    /\ result = TriangleData
    /\ calls = <<>>
    /\ caught = ""
    /\ escaped = ""
    /\ origin = "fresh"
    /\ triangle = TriangleData
    /\ before = TriangleData
    /\ op = "new"
    /\ raised = <<"", "">>
    /\ steps = 0
    /\ NoValidator
    /\ NoCallers

SetWindow(w) ==
    /\ fields' = w.fields
    /\ button' = w.button
    /\ status' = w.status
    /\ output' = w.output
    /\ canvas' = w.canvas
    /\ showing' = w.showing
    /\ UNCHANGED <<callVars, unitVars, validatorVars, threadVars>>

\* The user changes the text of a field: textChanged calls on_input_changed.
EditField ==
    /\ pc = "window"
    /\ \E k \in RequiredKeys : \E txt \in UITexts \ {fields[k]} :
           \E w \in {on_input_changed([Window EXCEPT !.fields[k] = txt])} : SetWindow(w)
    /\ UNCHANGED last

\* The user clicks the action button, which takes clicks when enabled.
ClickAction ==
    /\ pc = "window"
    /\ button.enabled
    /\ \E w \in {on_action_clicked(Window)} : SetWindow(w)
    /\ \E call \in {CoreCall(Window)} : last' = [filled |-> NonBlank(fields), result |-> call.t]

NextWindow ==
    \/ EditField
    \/ ClickAction

SpecWindow == InitWindow /\ [][NextWindow]_vars

\* ------------------------------------------------------------ properties
Sides == 0 .. None
IsTriangleData(t) ==
    /\ DOMAIN t = {"a", "b", "c", "is_right", "is_valid", "message"}
    /\ t.a \in Sides /\ t.b \in Sides /\ t.c \in Sides
    /\ t.is_right \in BOOLEAN /\ t.is_valid \in BOOLEAN

\* The value a mapping holds for a key it has.
ValueOf(m, k) == m[CHOOSE i \in 1 .. Len(m) : m[i].key = k].value

\* The call has returned and the loop over the items ran to its end: every
\* field of the caller's mapping now holds a float or None.
Parsed ==
    /\ pc = "done"
    /\ KeySet(data) = RequiredKeys
    /\ \A i \in 1 .. Len(data) : data[i].value.kind \in {"float", "None"}
MissingAfter == {data[i].key : i \in {j \in 1 .. Len(data) : data[j].value.kind = "None"}}

\* C1: whatever the mapping (any key set, any text-or-absent values),
\* proceed_data lets no exception out and returns a TriangleData; a wrong key
\* set and every other failure raised on the way comes back as a record with
\* is_valid = false, is_right = false and the failure's text as message.
C1_FailuresAreReturned ==
    pc = "done" =>
        /\ escaped = ""
        /\ IsTriangleData(result)
        /\ KeySet(input) # RequiredKeys => caught = MsgKeys
        /\ caught # "" => /\ ~result.is_valid
                          /\ ~result.is_right
                          /\ result.message = caught

C1_Witness ==
    /\ pc = "done"
    /\ caught = MsgImpossible
    /\ result.message = MsgImpossible
    /\ result.c # None

\* C2: the record proceed_data returns never has an empty message, on the
\* computing, the verifying and the error paths alike.
C2_MessageNeverEmpty == pc = "done" /\ escaped = "" => result.message # ""

C2_Witness ==
    /\ pc = "done"
    /\ caught = ""
    /\ calls = <<"normalise", "is_triangle_possible", "is_right_triangle">>
    /\ result.message = MsgNotRight

\* C3: once every value has parsed, the number of missing sides picks the
\* operation: only c missing, only compute_hypotenuse runs and the message is
\* "Hypotenuse calculated"; only a or only b missing, only compute_leg runs
\* and, if it succeeds, the message is "Leg calculated"; none missing, the
\* verification runs; more than one missing, no method runs and the result
\* is the "Enter exactly two values ..." error with both flags false.
C3_DispatchOnMissing ==
    Parsed =>
        /\ MissingAfter = {"c"} =>
              calls = <<"compute_hypotenuse">> /\ result.message = MsgHypotenuse
        /\ MissingAfter \in {{"a"}, {"b"}} =>
              /\ calls = <<"compute_leg">>
              /\ caught = "" => result.message = MsgLeg
        /\ MissingAfter = {} =>
              calls \in {<<"normalise", "is_triangle_possible">>,
                         <<"normalise", "is_triangle_possible", "is_right_triangle">>}
        /\ Cardinality(MissingAfter) > 1 =>
              /\ calls = <<>>
              /\ result.message = MsgTwoValues
              /\ ~result.is_valid /\ ~result.is_right

C3_Witness ==
    /\ Parsed
    /\ MissingAfter = {"b"}
    /\ calls = <<"compute_leg">>
    /\ result.message = MsgLeg
    /\ result.b = 4 * One

\* The floats next to the float r, below and above.
Below(r) == r - Spacing(r - 1)
Above(r) == r + Spacing(r)

\* r is the float whose square is s: the float nearest the exact square root
\* of s (in units, the root of s * One), by comparing squares of midpoints;
\* Inf for Inf; no float for NaN.
IsRoot(r, s) ==
    IF s = NaN THEN FALSE
    ELSE IF s = Inf THEN r = Inf
    ELSE /\ IsFinite(r)
         /\ RoundRat(r, 1) = r
         /\ r > 0 => (Below(r) + r) * (Below(r) + r) <= 4 * s * One
         /\ 4 * s * One <= (r + Above(r)) * (r + Above(r))

Present(t) == t.a # None /\ t.b # None /\ t.c # None
Ascending(t) == Present(t) /\ FLe(t.a, t.b) /\ FLe(t.b, t.c)
OneLeg(t) == t.c # None /\ (t.a = None) # (t.b = None)
Known(t) == IF t.a # None THEN t.a ELSE t.b
\* In the record u, the leg that was absent from t and the leg that was known.
Computed(t, u) == IF t.a # None THEN u.b ELSE u.a
Kept(t, u) == IF t.a # None THEN u.a ELSE u.b
Failed == raised[1] = "ValueError"
Succeeded == raised = <<"", "">>

\* C4: compute_leg fails when the known leg equals the hypotenuse: no leg is
\* computed and the flags are not set.
C4_EqualLegRejected ==
    pc = "unit" /\ op = "compute_leg" /\ OneLeg(before) /\ Known(before) = before.c
        => Failed /\ triangle = before

\* C5: compute_leg fails when c is absent, when no leg or both legs are
\* present, or when the known leg p is greater than c; with one leg p < c it
\* writes the float whose square is c*c - p*p into the absent leg, leaves p
\* and c alone and sets is_valid and is_right.
C5_LegComputed ==
    pc = "unit" /\ op = "compute_leg" =>
        IF ~OneLeg(before) \/ FGt(Known(before), before.c) THEN Failed
        ELSE FLt(Known(before), before.c) =>
                /\ Succeeded
                /\ IsRoot(Computed(before, triangle),
                          FAbsSub(FMul(before.c, before.c),
                                  FMul(Known(before), Known(before))))
                /\ Kept(before, triangle) = Known(before) /\ triangle.c = before.c
                /\ triangle.is_valid /\ triangle.is_right

\* C6: compute_hypotenuse fails when a leg is absent; otherwise it sets c to
\* the float whose square is a*a + b*b, sets is_valid and is_right and
\* leaves a and b alone.
C6_HypotenuseComputed ==
    pc = "unit" /\ op = "compute_hypotenuse" =>
        IF before.a = None \/ before.b = None THEN Failed
        ELSE /\ Succeeded
             /\ IsRoot(triangle.c, FAdd(FMul(before.a, before.a),
                                        FMul(before.b, before.b)))
             /\ triangle.is_valid /\ triangle.is_right
             /\ triangle.a = before.a /\ triangle.b = before.b

C6_Witness ==
    /\ pc = "unit" /\ op = "compute_hypotenuse" /\ Succeeded
    /\ before.a = 3 * One /\ before.b = 4 * One /\ before.c = None
    /\ triangle.c = 5 * One

\* The three floats of a mapping in VERIFY mode, in the order of its items.
Entered == [i \in 1 .. 3 |-> data[i].value.val]

\* C7: on a record in ascending order is_triangle_possible fails exactly when
\* a + b <= c (equality included) and otherwise sets is_valid; proceed_data on
\* three values of which the two smaller sum to at most the largest returns
\* is_valid = false, is_right = false and the "impossible" message.
C7_TriangleInequality ==
    /\ pc = "unit" /\ op = "is_triangle_possible" /\ Ascending(before) =>
          /\ Failed <=> FLe(FAdd(before.a, before.b), before.c)
          /\ ~Failed => Succeeded /\ triangle = [before EXCEPT !.is_valid = TRUE]
    /\ Parsed /\ MissingAfter = {} =>
          \A p \in Permutations(1 .. 3) :
              /\ FLe(Entered[p[1]], Entered[p[3]])
              /\ FLe(Entered[p[2]], Entered[p[3]])
              /\ FLe(FAdd(Entered[p[1]], Entered[p[2]]), Entered[p[3]])
              => /\ ~result.is_valid /\ ~result.is_right
                 /\ result.message = MsgImpossible

C7_Witness ==
    /\ pc = "unit" /\ op = "is_triangle_possible" /\ Failed
    /\ before.a = One /\ before.b = One /\ before.c = 2 * One

\* The mapping with the values of m moved among its fields by p.
Permuted(m, p) == [i \in 1 .. Len(m) |-> Item(m[i].key, m[p[i]].value)]

\* C8: in VERIFY mode the result does not depend on which field holds which
\* value: every permutation of the three values gives the same record, whose
\* sides are in ascending order.
C8_VerifyIgnoresFields ==
    Parsed /\ MissingAfter = {} =>
        /\ caught = "" => Ascending(result)
        /\ \A p \in Permutations(1 .. 3) : proceed_data(Permuted(input, p)).t = result

C8_Witness ==
    /\ Parsed /\ MissingAfter = {}
    /\ ValueOf(input, "a") = Raw("num", 4 * One)
    /\ ValueOf(input, "b") = Raw("num", 5 * One)
    /\ ValueOf(input, "c") = Raw("num", 3 * One)
    /\ result.a = 3 * One /\ result.b = 4 * One /\ result.c = 5 * One
    /\ result.message = MsgRight

Triple(t) == <<t.a, t.b, t.c>>
WithSides(t, s) == [t EXCEPT !.a = s[1], !.b = s[2], !.c = s[3]]

\* C9: normalise fails when a side is absent; otherwise it puts the same
\* three values in ascending order and leaves the flags and the message
\* alone, changes nothing in a record already in ascending order, and gives
\* the same triple for every permutation of the sides.
C9_NormaliseSorts ==
    pc = "unit" /\ op = "normalise" =>
        IF ~Present(before) THEN Failed
        ELSE /\ Succeeded
             /\ Ascending(triangle)
             /\ \E p \in Permutations(1 .. 3) :
                    \A i \in 1 .. 3 : Triple(triangle)[i] = Triple(before)[p[i]]
             /\ triangle = WithSides(before, Triple(triangle))
             /\ Ascending(before) => triangle = before
             /\ normalise(triangle).t = triangle
             /\ \A p \in Permutations(1 .. 3) :
                    normalise(WithSides(before, [i \in 1 .. 3 |-> Triple(before)[p[i]]])).t
                        = triangle

C9_Witness ==
    /\ pc = "unit" /\ op = "normalise" /\ Succeeded
    /\ Triple(before) = <<4 * One, 5 * One, 3 * One>>
    /\ Triple(triangle) = <<3 * One, 4 * One, 5 * One>>

\* C10: a hypotenuse r computed from two legs (a positive finite r) and fed
\* back with them is verified as a valid right triangle.
C10_RoundTrip ==
    /\ pc = "done" /\ origin = "roundtrip"
    /\ ValueOf(input, "c").kind = "num" /\ ValueOf(input, "c").val > 0
    => result.is_valid /\ result.is_right

\* a*a + b*b equals c*c within the tolerance, as is_right_triangle tests it.
WithinTolerance(t) ==
    LET lhs == FAdd(FMul(t.a, t.a), FMul(t.b, t.b))
        rhs == FMul(t.c, t.c)
    IN  FLe(FAbsSub(lhs, rhs), PyMax(AbsTol, FMul(RelTol, PyMax(lhs, rhs))))

\* C11: on a record constructed with both flags false, after any sequence of
\* method calls (succeeding or failing), is_right = true only if all three
\* sides are present and a*a + b*b equals c*c within the tolerance.
C11_RightMeansConsistent ==
    pc = "seq" /\ triangle.is_right => Present(triangle) /\ WithinTolerance(triangle)

\* C12: a record proceed_data returns with is_valid = true has all three
\* sides present and strictly positive, and its two smaller sides sum to
\* more than its largest, after a computation as well as a verification.
C12_ValidMeansFeasible ==
    pc = "done" /\ escaped = "" /\ result.is_valid =>
        /\ Present(result)
        /\ \A x \in {result.a, result.b, result.c} : FGt(x, 0)
        /\ LET s == Sorted3(result.a, result.b, result.c)
           IN  FGt(FAdd(s[1], s[2]), s[3])

\* What float() makes of a numeral denoting v: its sign and the float nearest
\* its magnitude (Inf beyond the largest float).
Reads(value) == RoundRat(IF value.val < 0 THEN 0 - value.val ELSE value.val, 1)

\* C13: validate_value returns None exactly for an absent, blank or
\* whitespace-only value; for any other value it returns the number read if
\* that is finite and greater than zero, and otherwise raises the error of
\* the first rule broken, named with the field: not a number, then not finite
\* (nan, inf and -inf alike), then not greater than zero.
C13_ValueRules ==
    pc = "validated" /\ op = "validate_value" =>
        LET key == checked.key
            value == checked.value
        IN  CASE value.kind \in {"None", "blank", "space"} -> verdict = Return(None)
              [] value.kind = "word" ->
                    verdict = Raise(None, "ValueError", MsgNumber(key))
              [] value.kind \in {"nan", "inf", "neginf"} ->
                    verdict = Raise(None, "ValueError", MsgFinite(key))
              [] value.kind = "num" /\ Reads(value) = Inf ->
                    verdict = Raise(None, "ValueError", MsgFinite(key))
              [] value.kind = "num" /\ Reads(value) # Inf /\ value.val <= 0 ->
                    verdict = Raise(None, "ValueError", MsgPositive(key))
              [] OTHER ->
                    verdict = Return(Reads(value)) /\ verdict.t \in 1 .. (Inf - 1)

C13_Witness ==
    /\ pc = "validated" /\ op = "validate_value"
    /\ checked = Item("b", Raw("neginf", 0))
    /\ verdict = Raise(None, "ValueError",
                        "Field b: value must be finite (not NaN or infinity).")

\* The keys of the mapping m are a, b and c, each once and nothing else.
ExactlyABC(m) ==
    /\ Len(m) = 3
    /\ \A k \in {"a", "b", "c"} : \E i \in 1 .. 3 : m[i].key = k

\* C14: validate_required_keys accepts a mapping exactly when its keys are
\* a, b and c, in any order and whatever the values; on a mapping with a key
\* missing, a key too many or both, proceed_data returns the "Data must
\* contain exactly keys" error with both flags false and no side set.
C14_ExactKeys ==
    /\ pc = "validated" /\ op = "validate_required_keys" =>
          IF ExactlyABC(checked) THEN verdict = Return(None)
          ELSE verdict = Raise(None, "ValueError", "Data must contain exactly keys: a, b, c")
    /\ pc = "done" /\ ~ExactlyABC(input) =>
          /\ escaped = ""
          /\ result = [a |-> None, b |-> None, c |-> None,
                       is_right |-> FALSE, is_valid |-> FALSE,
                       message |-> "Data must contain exactly keys: a, b, c"]

C14_Witness ==
    /\ pc = "done"
    /\ Len(input) = 4
    /\ input[1].key = "d"
    /\ result.message = "Data must contain exactly keys: a, b, c"
    /\ result.a = None

\* The mapping m with its items in the order p: the same value under each key.
Reordered(m, p) == [i \in 1 .. Len(m) |-> m[p[i]]]

\* C15: two mappings that hold the same value under each of a, b and c give
\* equal records (sides, flags and message), whatever the order of their keys.
C15_KeyOrderIrrelevant ==
    pc = "done" /\ ExactlyABC(input) =>
        \A p \in Permutations(1 .. 3) : proceed_data(Reordered(input, p)).t = result

\* C16: calls of proceed_data do not affect each other: however the steps
\* of calls on distinct mappings interleave (one after the other included),
\* each call works on a record it created itself and returns the record, and
\* leaves the mapping, that the call gives when it runs alone on its input.
C16_CallsIndependent ==
    pc = "callers" =>
        \A c \in Callers :
            /\ frames[c].pc # "new" =>
                  /\ frames[c].ref \in 1 .. Len(heap)
                  /\ \A d \in Callers \ {c} : frames[d].ref # frames[c].ref
            /\ frames[c].pc = "done" =>
                  \E alone \in {proceed_data(frames[c].input)} :
                      /\ heap[frames[c].ref] = alone.t
                      /\ frames[c].exc = alone.exc
                      /\ frames[c].data = alone.data
                      /\ frames[c].calls = alone.calls

C16_Witness ==
    /\ pc = "callers"
    /\ frames["p"].pc = "done" /\ frames["q"].pc = "item2"
    /\ frames["p"].ref = 2 /\ frames["q"].ref = 1
    /\ heap[2].message = MsgHypotenuse
    /\ heap[1].a = 3 * One /\ heap[1].b = None /\ heap[1].message = ""

\* C17: when proceed_data has returned, with a result or with an error
\* record, the caller's mapping holds under every key the raw value it held
\* when the call was made.
C17_MappingUntouched == pc = "done" => data = input

\* C18: with all three sides present is_right_triangle sets is_right to
\* whether |a*a + b*b - c*c| <= max(1e-12, 1e-9 * max(a*a + b*b, c*c)),
\* whatever is_right was, and changes nothing else; with a side absent it
\* fails and leaves the record, is_right included, as it was.
C18_RightWithinTolerance ==
    pc = "unit" /\ op = "is_right_triangle" =>
        IF Present(before)
        THEN /\ Succeeded
             /\ triangle.is_right = WithinTolerance(before)
             /\ triangle = [before EXCEPT !.is_right = triangle.is_right]
        ELSE /\ raised = <<"ValueError", "All three sides are required to verify a triangle.">>
             /\ triangle = before

C18_Witness ==
    /\ pc = "unit" /\ op = "is_right_triangle" /\ Succeeded
    /\ Triple(before) = <<2 * One, 3 * One, 4 * One>>
    /\ before.is_right /\ before.is_valid
    /\ ~triangle.is_right /\ triangle.is_valid

\* C19: after any edits and clicks the action button is enabled and reads
\* "Calculate" exactly when two of the fields a, b, c hold non-blank text,
\* is enabled and reads "Verify" exactly when all three do, and is disabled
\* and reads a dash when none or one does, also right after a click.
C19_ButtonFollowsFields ==
    pc = "window" =>
        /\ Cardinality(NonBlank(fields)) = 2 <=> button = [enabled |-> TRUE, text |-> "Calculate"]
        /\ Cardinality(NonBlank(fields)) = 3 <=> button = [enabled |-> TRUE, text |-> "Verify"]
        /\ Cardinality(NonBlank(fields)) < 2 <=> button = [enabled |-> FALSE, text |-> Dash]

C19_Witness ==
    /\ pc = "window"
    /\ last # <<>>
    /\ showing
    /\ fields.a.kind = "space" /\ fields.b.kind = "blank" /\ fields.c.kind = "blank"
    /\ ~button.enabled

\* C20: the computed-output row is visible only if the most recent click
\* read exactly two filled fields and core returned is_valid = true, and it
\* then shows the name and the value of the side whose field was empty; a
\* click with three filled fields or with an invalid result hides it.
C20_OutputAfterCalculate ==
    pc = "window" =>
        /\ output.visible =>
              /\ last # <<>>
              /\ Cardinality(last.filled) = 2
              /\ last.result.is_valid
              /\ \E k \in {"a", "b", "c"} :
                     /\ k \notin last.filled
                     /\ output.label = k \o ":"
                     /\ output.text = FormatG(last.result[k])
        /\ last # <<>> /\ (Cardinality(last.filled) = 3 \/ ~last.result.is_valid)
              => ~output.visible

C20_Witness ==
    /\ pc = "window"
    /\ last # <<>>
    /\ last.filled = {"a", "c"}
    /\ last.result.a = 3 * One /\ last.result.c = 5 * One
    /\ output = [visible |-> TRUE, label |-> "b:", text |-> Raw("num", 4 * One)]
    /\ fields.a = Raw("space", 0) /\ fields.b = Raw("num", 4 * One)

\* A raw value is blank, good (a numeral read as a positive finite float) or bad.
Blank(v) == v.kind \in {"None", "blank", "space"}
Good(v) == v.kind = "num" /\ v.val > 0 /\ Reads(v) \in 1 .. (Inf - 1)
Bad(v) == ~Blank(v) /\ ~Good(v)
FieldErrors(k) ==
    {"Field " \o k \o ": value must be a number.",
     "Field " \o k \o ": value must be finite (not NaN or infinity).",
     "Field " \o k \o ": value must be greater than zero."}

\* C21: proceed_data reports errors in the order of its steps: a wrong key
\* set before any value is parsed; a bad value in a field in preference to
\* "more than one missing", also next to two blank fields; "more than one
\* missing" only when every value was good or blank; a geometry error only
\* when every value was good or blank and the right number of them was good.
C21_ErrorPrecedence ==
    pc = "done" =>
        IF ~ExactlyABC(input) THEN caught = MsgKeys /\ data = input
        ELSE LET bad == {i \in 1 .. 3 : Bad(input[i].value)}
                 blank == {i \in 1 .. 3 : Blank(input[i].value)}
             IN  /\ caught # MsgKeys
                 /\ bad # {} <=> \E i \in bad : caught \in FieldErrors(input[i].key)
                 /\ caught = MsgTwoValues <=> bad = {} /\ Cardinality(blank) > 1
                 /\ caught \in {MsgLegTooLong, MsgDomain} =>
                        /\ bad = {} /\ Cardinality(blank) = 1
                        /\ ~Blank(ValueOf(input, "c"))
                 /\ caught = MsgImpossible => bad = {} /\ blank = {}
                 /\ caught \notin {MsgLegsRequired, MsgHypRequired, MsgOneLeg,
                                    MsgVerifySides, MsgValidateSides}

C21_Witness ==
    /\ pc = "done" /\ ExactlyABC(input)
    /\ ValueOf(input, "a").kind = "blank" /\ ValueOf(input, "b").kind = "None"
    /\ ValueOf(input, "c").kind = "neginf"
    /\ caught = "Field c: value must be finite (not NaN or infinity)."
    /\ result.message = caught

\* The three values entered, smallest first.
EnteredAscending ==
    CHOOSE s \in {[i \in 1 .. 3 |-> Entered[p[i]]] : p \in Permutations(1 .. 3)} :
        s[1] <= s[2] /\ s[2] <= s[3]

\* C22: with three values proceed_data runs normalise, is_triangle_possible
\* and is_right_triangle in this order and stops at the first that fails: the
\* inequality is tested on the two smaller values against the largest, and
\* when it fails is_right_triangle is not run and is_right is false.
C22_VerifyOrder ==
    Parsed /\ MissingAfter = {} =>
        LET s == EnteredAscending
            impossible == FLe(FAdd(s[1], s[2]), s[3])
        IN  IF impossible
            THEN /\ calls = <<"normalise", "is_triangle_possible">>
                 /\ caught = "Input sorted: largest treated as hypotenuse. Triangle is impossible: a + b <= c ."
                 /\ ~result.is_right /\ ~result.is_valid
            ELSE /\ calls = <<"normalise", "is_triangle_possible", "is_right_triangle">>
                 /\ caught = ""
                 /\ result.is_valid

C22_Witness ==
    /\ Parsed /\ MissingAfter = {}
    /\ Entered = <<3 * One, One, 2 * One>>
    /\ Triple(result) = <<One, 2 * One, 3 * One>>
    /\ calls = <<"normalise", "is_triangle_possible">>
    /\ ~result.is_right

\* What a field holds once its raw value v, blank or good, has been parsed.
ParsedValue(v) == IF Blank(v) THEN None ELSE Reads(v)

\* C23: a failure of proceed_data rolls nothing back; it only resets both
\* flags.  After a bad value in some field, every field before it in the
\* mapping holds its parsed value and that field and those after it are
\* absent; after "Triangle is impossible" the three sides are present in
\* ascending order; after a failure of compute_leg the two sides entered
\* are present.
C23_NoRollback ==
    pc = "done" /\ caught # "" /\ ExactlyABC(input) =>
        LET bad == {i \in 1 .. 3 : Bad(input[i].value)}
        IN  /\ ~result.is_valid /\ ~result.is_right
            /\ bad # {} =>
                   \A i \in 1 .. 3 :
                       result[input[i].key] =
                           IF \E j \in bad : j <= i THEN None
                           ELSE ParsedValue(input[i].value)
            /\ bad = {} =>
                   \A k \in {"a", "b", "c"} :
                       caught # MsgImpossible => result[k] = ParsedValue(ValueOf(input, k))
            /\ caught = MsgImpossible =>
                   /\ Triple(result) = EnteredAscending
                   /\ \A k \in {"a", "b", "c"} : Good(ValueOf(input, k))
            /\ caught = MsgLegTooLong =>
                   /\ result.c # None
                   /\ (result.a = None) # (result.b = None)

C23_Witness ==
    /\ pc = "done" /\ ExactlyABC(input)
    /\ input[1] = Item("b", Raw("num", 4 * One))
    /\ input[2] = Item("c", Raw("word", 0))
    /\ input[3] = Item("a", Raw("num", 3 * One))
    /\ result = [a |-> None, b |-> 4 * One, c |-> None, is_right |-> FALSE,
                 is_valid |-> FALSE, message |-> "Field c: value must be a number."]

\* C24: a TriangleData method that fails has changed nothing: the sides,
\* both flags and the message are as before the call.  The failures are:
\* compute_hypotenuse without a leg; compute_leg without c, without exactly
\* one leg, or with the known leg longer than c; normalise and
\* is_right_triangle without a side; is_triangle_possible with a + b <= c,
\* which leaves an is_valid that was true as it was.
C24_FailureChangesNothing ==
    pc = "unit" /\ op # "new" =>
        /\ raised[1] # "" => triangle = before
        /\ op = "compute_hypotenuse" /\ (before.a = None \/ before.b = None) => Failed
        /\ op = "compute_leg" /\ before.c = None => Failed
        /\ op = "compute_leg" /\ (before.a = None) = (before.b = None) => Failed
        /\ op = "compute_leg" /\ OneLeg(before) /\ FGt(Known(before), before.c) => Failed
        /\ op \in {"normalise", "is_right_triangle"} /\ ~Present(before) => Failed
        /\ op = "is_triangle_possible" /\ Present(before)
              /\ FLe(FAdd(before.a, before.b), before.c) => Failed

C24_Witness ==
    /\ pc = "unit" /\ op = "is_triangle_possible"
    /\ raised[1] = "ValueError"
    /\ Triple(before) = <<3 * One, 4 * One, 8 * One>>
    /\ before.is_valid /\ triangle.is_valid /\ triangle = before

====
